---- MODULE Spec2Model ----
(***************************************************************************)
(* Daily Pulse Builder (build_pulse.py): the field classifiers, the record *)
(* normaliser, the bucket aggregator and the pipeline `process`.           *)
(*                                                                         *)
(* A text is a sequence of one-character strings, so that lower-casing,    *)
(* substring search and numeric-token extraction are computed character by *)
(* character.  A missing cell (pandas NaN) is the one-element sequence NaN.*)
(* Numbers that are floats in the program are kept exact: a rate is a      *)
(* fraction <<num, den>>, a share is a number of tenths, a sentiment a     *)
(* number of twentieths, an average sentiment a number of hundredths.      *)
(***************************************************************************)
EXTENDS Integers, Sequences, FiniteSets, TLC

VARIABLES input, pc, df, pulse, output, error, text, parts, res

vars == <<input, pc, df, pulse, output, error, text, parts, res>>

(***************************************************************************)
(* Texts                                                                   *)
(***************************************************************************)
NaN == <<"<NaN>">>

isna(x) == x = NaN

UpperAlpha == <<"A","B","C","D","E","F","G","H","I","J","K","L","M","N","O","P","Q","R","S","T","U","V","W","X","Y","Z">>

LowerAlpha == <<"a","b","c","d","e","f","g","h","i","j","k","l","m","n","o","p","q","r","s","t","u","v","w","x","y","z">>

Digits == <<"0","1","2","3","4","5","6","7","8","9">>

LowerChar(c) ==
    IF \E i \in 1..Len(UpperAlpha) : UpperAlpha[i] = c
    THEN LowerAlpha[CHOOSE i \in 1..Len(UpperAlpha) : UpperAlpha[i] = c]
    ELSE c

\* str.lower()
lower(s) == [i \in 1..Len(s) |-> LowerChar(s[i])]

\* k in s
Contains(k, s) ==
    \E i \in 0..(Len(s) - Len(k)) : SubSeq(s, i + 1, i + Len(k)) = k

\* any(k in s for k in keywords), keywords a sequence of texts
AnyIn(keywords, s) == \E j \in 1..Len(keywords) : Contains(keywords[j], s)

IsDigit(c) == \E i \in 1..Len(Digits) : Digits[i] = c

DigitVal(c) == (CHOOSE i \in 1..Len(Digits) : Digits[i] = c) - 1

(***************************************************************************)
(* Field classifiers                                                       *)
(***************************************************************************)
\* mutant: 'mexico' is not among the NA keywords
REGION_MAPPING_no_mexico == <<
    [code |-> "NA", keywords |-> << <<"u","s">>, <<"u","n","i","t","e","d"," ","s","t","a","t","e","s">>, <<"c","a","n","a","d","a">>, <<"l","o","s"," ","a","n","g","e","l","e","s">>, <<"a","t","l","a","n","t","a">>, <<"c","h","i","c","a","g","o">>, <<"t","o","r","o","n","t","o">>, <<"v","a","n","c","o","u","v","e","r">> >>],
    [code |-> "EU", keywords |-> << <<"u","k">>, <<"u","n","i","t","e","d"," ","k","i","n","g","d","o","m">>, <<"g","e","r","m","a","n","y">>, <<"f","r","a","n","c","e">>, <<"i","t","a","l","y">>, <<"s","p","a","i","n">>, <<"n","e","t","h","e","r","l","a","n","d","s">>, <<"l","o","n","d","o","n">>, <<"p","a","r","i","s">>, <<"b","e","r","l","i","n">> >>],
    [code |-> "AP", keywords |-> << <<"i","n","d","i","a">>, <<"c","h","i","n","a">>, <<"j","a","p","a","n">>, <<"k","o","r","e","a">>, <<"a","u","s","t","r","a","l","i","a">>, <<"s","i","n","g","a","p","o","r","e">>, <<"h","o","n","g"," ","k","o","n","g">>, <<"n","e","w"," ","z","e","a","l","a","n","d">>, <<"t","h","a","i","l","a","n","d">> >>],
    [code |-> "LA", keywords |-> << <<"b","r","a","z","i","l">>, <<"a","r","g","e","n","t","i","n","a">>, <<"c","h","i","l","e">>, <<"c","o","l","o","m","b","i","a">>, <<"p","e","r","u">>, <<"v","e","n","e","z","u","e","l","a">>, <<"m","e","x","i","c","o"," ","c","i","t","y">> >>] >>

\* the dict keeps insertion order: NA, EU, AP, LA
REGION_MAPPING == <<
    [code |-> "NA", keywords |-> << <<"u","s">>, <<"u","n","i","t","e","d"," ","s","t","a","t","e","s">>, <<"c","a","n","a","d","a">>, <<"m","e","x","i","c","o">>, <<"l","o","s"," ","a","n","g","e","l","e","s">>, <<"a","t","l","a","n","t","a">>, <<"c","h","i","c","a","g","o">>, <<"t","o","r","o","n","t","o">>, <<"v","a","n","c","o","u","v","e","r">> >>],
    [code |-> "EU", keywords |-> << <<"u","k">>, <<"u","n","i","t","e","d"," ","k","i","n","g","d","o","m">>, <<"g","e","r","m","a","n","y">>, <<"f","r","a","n","c","e">>, <<"i","t","a","l","y">>, <<"s","p","a","i","n">>, <<"n","e","t","h","e","r","l","a","n","d","s">>, <<"l","o","n","d","o","n">>, <<"p","a","r","i","s">>, <<"b","e","r","l","i","n">> >>],
    [code |-> "AP", keywords |-> << <<"i","n","d","i","a">>, <<"c","h","i","n","a">>, <<"j","a","p","a","n">>, <<"k","o","r","e","a">>, <<"a","u","s","t","r","a","l","i","a">>, <<"s","i","n","g","a","p","o","r","e">>, <<"h","o","n","g"," ","k","o","n","g">>, <<"n","e","w"," ","z","e","a","l","a","n","d">>, <<"t","h","a","i","l","a","n","d">> >>],
    [code |-> "LA", keywords |-> << <<"b","r","a","z","i","l">>, <<"a","r","g","e","n","t","i","n","a">>, <<"c","h","i","l","e">>, <<"c","o","l","o","m","b","i","a">>, <<"p","e","r","u">>, <<"v","e","n","e","z","u","e","l","a">>, <<"m","e","x","i","c","o"," ","c","i","t","y">> >>] >>

PROJECT_TYPE_MAPPING == <<
    [code |-> "F", keywords |-> << <<"f","i","l","m">>, <<"m","o","v","i","e">>, <<"f","e","a","t","u","r","e">> >>],
    [code |-> "T", keywords |-> << <<"t","v">>, <<"s","e","r","i","e","s">>, <<"s","t","r","e","a","m","i","n","g">>, <<"s","h","o","w">>, <<"e","p","i","s","o","d","e">> >>],
    [code |-> "C", keywords |-> << <<"c","o","m","m","e","r","c","i","a","l">>, <<"a","d","v","e","r","t","i","s","e","m","e","n","t">>, <<"a","d">> >>],
    [code |-> "V", keywords |-> << >>] >>

\* for code, keywords in mapping.items(): if any(k in s for k in keywords): return code
FirstMatch(mapping, s, default) ==
    LET hits == {i \in 1..Len(mapping) : AnyIn(mapping[i].keywords, s)}
    IN  IF hits = {} THEN default
        ELSE mapping[CHOOSE i \in hits : \A j \in hits : i <= j].code

\* mutant: the last matching category wins
map_region_last(location) ==
    IF isna(location) THEN "NA"
    ELSE LET hits == {i \in 1..Len(REGION_MAPPING) : AnyIn(REGION_MAPPING[i].keywords, lower(location))}
         IN  IF hits = {} THEN "NA"
             ELSE REGION_MAPPING[CHOOSE i \in hits : \A j \in hits : i >= j].code

map_region(location) ==
    IF isna(location) THEN "NA"
    ELSE FirstMatch(REGION_MAPPING, lower(location), "NA")

map_project_type(project_type) ==
    IF isna(project_type) THEN "V"
    ELSE FirstMatch(PROJECT_TYPE_MAPPING, lower(project_type), "V")

LEAD_TERMS == << <<"l","e","a","d">>, <<"p","r","i","n","c","i","p","a","l">>, <<"m","a","i","n">>, <<"s","t","a","r","r","i","n","g">> >>

is_lead(role_type) ==
    IF isna(role_type) THEN FALSE
    ELSE AnyIn(LEAD_TERMS, lower(role_type))

UNION_TERMS == << <<"s","a","g">>, <<"a","f","t","r","a">>, <<"e","q","u","i","t","y">>, <<"u","n","i","o","n">> >>

\* mutant: "non-union" is looked for before lower-casing
is_union_case(union_status) ==
    IF isna(union_status) THEN FALSE
    ELSE ~Contains(<<"n","o","n","-","u","n","i","o","n">>, union_status) /\ AnyIn(UNION_TERMS, lower(union_status))

is_union(union_status) ==
    IF isna(union_status) THEN FALSE
    ELSE LET status == lower(union_status)
         IN  ~Contains(<<"n","o","n","-","u","n","i","o","n">>, status) /\ AnyIn(UNION_TERMS, status)

AI_TERMS == << <<"a","i">>, <<"r","o","b","o","t">>, <<"a","n","d","r","o","i","d">>, <<"a","r","t","i","f","i","c","i","a","l"," ","i","n","t","e","l","l","i","g","e","n","c","e">>, <<"c","y","b","o","r","g">>, <<"m","a","c","h","i","n","e"," ","l","e","a","r","n","i","n","g">> >>

\* mutant: 'robot' is not among the terms
has_ai_keywords_no_robot(t) ==
    IF isna(t) THEN FALSE
    ELSE AnyIn(<<AI_TERMS[1]>> \o SubSeq(AI_TERMS, 3, Len(AI_TERMS)), lower(t))

has_ai_keywords(t) ==
    IF isna(t) THEN FALSE
    ELSE AnyIn(AI_TERMS, lower(t))

(***************************************************************************)
(* Numbers                                                                 *)
(***************************************************************************)
\* value of a run of decimal digits
RECURSIVE DigitsValue(_)
DigitsValue(ds) ==
    IF ds = <<>> THEN 0
    ELSE 10 * DigitsValue(SubSeq(ds, 1, Len(ds) - 1)) + DigitVal(ds[Len(ds)])

RECURSIVE Pow10(_)
Pow10(k) == IF k = 0 THEN 1 ELSE 10 * Pow10(k - 1)

\* length of the longest run of digits of s that starts at position p
RECURSIVE DigitRun(_, _)
DigitRun(s, p) ==
    IF p <= Len(s) /\ IsDigit(s[p]) THEN 1 + DigitRun(s, p + 1) ELSE 0

\* re.findall(r'\d+\.?\d*', s)[0] parsed by float(): the leftmost match starts
\* at the first digit, takes the digit run, an optional point and the digits
\* after it.  The value is the fraction <<num, den>>; <<>> is np.nan.
extract_rate(t) ==
    IF isna(t) THEN <<>>
    ELSE IF ~\E p \in 1..Len(t) : IsDigit(t[p]) THEN <<>>
    ELSE LET p  == CHOOSE q \in 1..Len(t) : IsDigit(t[q]) /\ \A r \in 1..(q - 1) : ~IsDigit(t[r])
             n  == DigitRun(t, p)
             pt == (p + n <= Len(t)) /\ t[p + n] = "."
             f  == IF pt THEN DigitRun(t, p + n + 1) ELSE 0
             ip == DigitsValue(SubSeq(t, p, p + n - 1))
             fp == DigitsValue(SubSeq(t, p + n + 1, p + n + f))
         IN  <<ip * Pow10(f) + fp, Pow10(f)>>

\* round(a / b) for b > 0: ties go to the even integer (Python 3 and numpy)
RoundHalfEven(a, b) ==
    LET q == a \div b
        r == a - q * b
    IN  IF 2 * r < b THEN q
        ELSE IF 2 * r > b THEN q + 1
        ELSE IF q % 2 = 0 THEN q ELSE q + 1

clamp(value, min_val, max_val) ==
    LET m == IF max_val < value THEN max_val ELSE value
    IN  IF min_val > m THEN min_val ELSE m

RatLess(a, b) == a[1] * b[2] < b[1] * a[2]

RatLeq(a, b) == a[1] * b[2] <= b[1] * a[2]

\* the k-th smallest element of a non-empty sequence of fractions
KthSmallest(v, k) ==
    LET i == CHOOSE j \in 1..Len(v) :
                 /\ Cardinality({h \in 1..Len(v) : RatLess(v[h], v[j])}) < k
                 /\ k <= Cardinality({h \in 1..Len(v) : RatLeq(v[h], v[j])})
    IN  v[i]

\* Series.median(): the middle value, or the mean of the two middle values
median(v) ==
    LET n == Len(v)
    IN  IF n % 2 = 1 THEN KthSmallest(v, (n + 1) \div 2)
        ELSE LET a == KthSmallest(v, n \div 2)
                 b == KthSmallest(v, n \div 2 + 1)
             IN  <<a[1] * b[2] + b[1] * a[2], 2 * a[2] * b[2]>>

(***************************************************************************)
(* Dates                                                                   *)
(***************************************************************************)
NaT == <<>>

IsLeap(y) == (y % 4 = 0 /\ y % 100 # 0) \/ y % 400 = 0

DaysInMonth(y, m) ==
    IF m = 2 THEN (IF IsLeap(y) THEN 29 ELSE 28)
    ELSE IF m \in {4, 6, 9, 11} THEN 30 ELSE 31

\* pd.to_datetime(..., errors='coerce') on one cell, for the ISO form
\* YYYY-MM-DD: a Timestamp <<year, month, day, hour, minute>> at midnight,
\* NaT for a missing cell, for a text of another shape and for a day that
\* the calendar does not have.
to_datetime(t) ==
    IF isna(t) THEN NaT
    ELSE IF ~(/\ Len(t) = 10
              /\ t[5] = "-" /\ t[8] = "-"
              /\ \A i \in {1, 2, 3, 4, 6, 7, 9, 10} : IsDigit(t[i])) THEN NaT
    ELSE LET y == DigitsValue(SubSeq(t, 1, 4))
             m == DigitsValue(SubSeq(t, 6, 7))
             d == DigitsValue(SubSeq(t, 9, 10))
         IN  IF m \in 1..12 /\ d \in 1..DaysInMonth(y, m) THEN <<y, m, d, 0, 0>> ELSE NaT

\* .dt.date: the calendar date of a Timestamp, NaT stays NaT
dt_date(ts) == IF ts = NaT THEN NaT ELSE SubSeq(ts, 1, 3)

(***************************************************************************)
(* Sentiment                                                               *)
(***************************************************************************)
SentimentSteps == 20

\* TextBlob(text).sentiment.polarity is an external capability: these are
\* stand-in answers, in thousandths, for the descriptions of the modelled
\* inputs; <<>> stands for a raised exception.
TextBlobPolarity(t) ==
    CASE t = <<"R","o","b","o","t"," ","l","e","a","d"," ","r","o","l","e">> -> <<0>>
      [] t = <<"W","a","r","m"," ","d","r","a","m","a">> -> <<600>>
      [] t = <<"A","n","d","r","o","i","d"," ","u","p","r","i","s","i","n","g">> -> <<-125>>
      [] t = <<"G","r","i","m"," ","w","a","r"," ","e","p","i","c">> -> <<-730>>
      [] t = <<"A","I"," ","h","e","i","s","t">> -> <<>>
      [] OTHER -> <<0>>

\* the sentiment in twentieths (multiples of 0.05)
calc_sentiment(t) ==
    IF isna(t) THEN 0
    ELSE LET polarity == TextBlobPolarity(t)
         IN  IF polarity = <<>> THEN 0
             ELSE RoundHalfEven(polarity[1] * SentimentSteps, 1000)

(***************************************************************************)
(* Bucket aggregator                                                       *)
(***************************************************************************)
MinGroup == 5

RateStep == 250

\* Python's order of the code strings that occur as region and project codes
SortedCodes == <<"AP", "C", "EU", "F", "LA", "NA", "T", "V">>

StrRank(s) == CHOOSE i \in 1..Len(SortedCodes) : SortedCodes[i] = s

StrLess(a, b) == StrRank(a) < StrRank(b)

\* datetime.date order; a missing date sorts last (na_position='last')
DateLess(a, b) ==
    IF a = NaT THEN FALSE
    ELSE IF b = NaT THEN TRUE
    ELSE \/ a[1] < b[1]
         \/ a[1] = b[1] /\ a[2] < b[2]
         \/ a[1] = b[1] /\ a[2] = b[2] /\ a[3] < b[3]

\* ascending order of (date_utc, region_code, proj_type_code)
KeyLess(a, b) ==
    \/ DateLess(a[1], b[1])
    \/ a[1] = b[1] /\ StrLess(a[2], b[2])
    \/ a[1] = b[1] /\ a[2] = b[2] /\ StrLess(a[3], b[3])

KeyOf(r) == <<r.date_utc, r.region_code, r.proj_type_code>>

RECURSIVE SortedKeys(_)
SortedKeys(S) ==
    IF S = {} THEN <<>>
    ELSE LET m == CHOOSE k \in S : \A o \in S \ {k} : KeyLess(k, o)
         IN  <<m>> \o SortedKeys(S \ {m})

\* mutant: groupby keeps the rows with a missing date (dropna=False)
InGroups_keep_na(r) == TRUE

\* groupby drops the rows whose key has a missing component (dropna=True)
InGroups(r) == r.date_utc # NaT

\* df.groupby([...]): the keys of the groups, in ascending order (sort=True)
groupby(d) == SortedKeys({KeyOf(d[i]) : i \in {j \in 1..Len(d) : InGroups(d[j])}})

GroupOf(d, key) == SelectSeq(d, LAMBDA r : InGroups(r) /\ KeyOf(r) = key)

\* mutant: the floor is one too low
Suppressed_below_four(group) == Len(group) < MinGroup - 1

\* if len(group) < 5: continue
Suppressed(group) == Len(group) < MinGroup

\* group[col].sum() of a boolean column
Count(group, col) == Cardinality({i \in 1..Len(group) : group[i][col]})

\* mutant: the share is truncated, not rounded
SharePct_truncated(cnt, total) == (10 * clamp(cnt, 0, total)) \div total

\* round(clamp(cnt / total), 1), in tenths
SharePct(cnt, total) == RoundHalfEven(10 * clamp(cnt, 0, total), total)

\* group['rate_val'].dropna()
dropna(group) ==
    LET valid == SelectSeq(group, LAMBDA r : r.rate_val # <<>>)
    IN  [i \in 1..Len(valid) |-> valid[i].rate_val]

\* mutant: int() without round()
median_rate_truncated(valid_rates) ==
    IF valid_rates = <<>> THEN <<>>
    ELSE LET m == median(valid_rates)
         IN  <<(m[1] \div (RateStep * m[2])) * RateStep>>

\* int(round(valid_rates.median() / 250)) * 250 if not valid_rates.empty else None
\* <<>> is None
median_rate(valid_rates) ==
    IF valid_rates = <<>> THEN <<>>
    ELSE LET m == median(valid_rates)
         IN  <<RoundHalfEven(m[1], RateStep * m[2]) * RateStep>>

RECURSIVE SumSentiment(_)
SumSentiment(group) ==
    IF group = <<>> THEN 0 ELSE group[1].sentiment + SumSentiment(Tail(group))

\* round(clamp(group['sentiment'].mean(), -1.0, 1.0), 2), in hundredths.  The
\* mean is a float: where the exact mean lies half-way between two
\* hundredths, drift (-1, 0, 1) is the side the float falls on.
sentiment_avg(group, drift) ==
    LET n == Len(group)
        a == clamp(5 * SumSentiment(group), -100 * n, 100 * n)
        q == a \div n
    IN  IF 2 * (a - q * n) = n /\ drift # 0
        THEN (IF drift < 0 THEN q ELSE q + 1)
        ELSE RoundHalfEven(a, n)

AggregateGroup(key, group, drift) ==
    LET total == Len(group)
    IN  [date_utc               |-> key[1],
         region_code            |-> key[2],
         proj_type_code         |-> key[3],
         role_count_day         |-> total,
         lead_share_pct_day     |-> SharePct(Count(group, "is_lead"), total),
         union_share_pct_day    |-> SharePct(Count(group, "is_union"), total),
         median_rate_day_usd    |-> median_rate(dropna(group)),
         sentiment_avg_day      |-> sentiment_avg(group, drift),
         theme_ai_share_pct_day |-> SharePct(Count(group, "has_ai"), total)]

bucket_and_aggregate(d, drift) ==
    LET keys == SelectSeq(groupby(d), LAMBDA k : ~Suppressed(GroupOf(d, k)))
    IN  [i \in 1..Len(keys) |-> AggregateGroup(keys[i], GroupOf(d, keys[i]), drift)]

Reverse(s) == [i \in 1..Len(s) |-> s[Len(s) + 1 - i]]

\* the rows in ascending order of key, rows of equal key in their old order
RECURSIVE SortRows(_)
SortRows(rows) ==
    IF rows = <<>> THEN <<>>
    ELSE LET i == CHOOSE j \in 1..Len(rows) :
                      /\ \A h \in 1..Len(rows) : ~KeyLess(KeyOf(rows[h]), KeyOf(rows[j]))
                      /\ \A h \in 1..(j - 1) : KeyLess(KeyOf(rows[j]), KeyOf(rows[h]))
         IN  <<rows[i]>> \o SortRows(SubSeq(rows, 1, i - 1) \o SubSeq(rows, i + 1, Len(rows)))

\* mutant: ascending=False
sort_values_descending(rows) == Reverse(SortRows(rows))

\* pulse.sort_values(['date_utc', 'region_code', 'proj_type_code'])
sort_values(rows) == SortRows(rows)

\* pd.DataFrame([]) has no columns: sort_values raises KeyError('date_utc')
HasKeyColumns(rows) == rows # <<>>

(***************************************************************************)
(* Input files                                                             *)
(***************************************************************************)
MaxRows == 10

\* one row of the input CSV, as read_csv loads it
Raw(d, l, p, rt, u, ra, de) ==
    [posted_date |-> d, work_location |-> l, project_type |-> p, role_type |-> rt,
     union |-> u, rate |-> ra, role_description |-> de]

Pool == <<
    Raw(<<"2","0","2","4","-","0","3","-","0","5">>, <<"L","o","s"," ","A","n","g","e","l","e","s">>, <<"F","e","a","t","u","r","e"," ","F","i","l","m">>, <<"L","e","a","d">>, <<"S","A","G","-","A","F","T","R","A">>, <<"$","1","2","0","0">>, <<"R","o","b","o","t"," ","l","e","a","d"," ","r","o","l","e">>),
    Raw(<<"2","0","2","4","-","0","3","-","0","4">>, <<"L","o","n","d","o","n",","," ","U","K">>, <<"T","V"," ","S","e","r","i","e","s">>, <<"M","a","i","n"," ","c","a","s","t">>, <<"E","q","u","i","t","y">>, <<"3","7","5",".","5","0">>, <<"G","r","i","m"," ","w","a","r"," ","e","p","i","c">>),
    Raw(<<"2","0","2","4","-","0","3","-","0","5">>, <<"A","u","s","t","i","n",","," ","T","X">>, <<"I","n","d","i","e"," ","m","o","v","i","e">>, <<"S","u","p","p","o","r","t","i","n","g">>, <<"N","o","n","-","U","n","i","o","n">>, <<"$","1","3","0","0","/","d","a","y">>, <<"W","a","r","m"," ","d","r","a","m","a">>),
    Raw(<<"2","0","2","4","-","0","3","-","0","5">>, <<"T","o","r","o","n","t","o">>, <<"C","o","m","m","e","r","c","i","a","l">>, <<"P","r","i","n","c","i","p","a","l">>, <<"U","n","i","o","n">>, <<"1","2","5">>, <<"A","n","d","r","o","i","d"," ","u","p","r","i","s","i","n","g">>),
    Raw(<<"2","0","2","4","-","0","3","-","0","5">>, <<"C","h","i","c","a","g","o">>, <<"F","i","l","m">>, <<"E","x","t","r","a">>, NaN, <<"U","n","k","n","o","w","n">>, NaN),
    Raw(<<"T","B","D">>, <<"L","o","s"," ","A","n","g","e","l","e","s">>, <<"F","e","a","t","u","r","e"," ","F","i","l","m">>, <<"L","e","a","d">>, <<"S","A","G">>, <<"$","9","0","0">>, <<"R","o","b","o","t"," ","l","e","a","d"," ","r","o","l","e">>),
    Raw(<<"2","0","2","4","-","0","3","-","0","5">>, <<"P","a","r","i","s">>, <<"S","t","r","e","a","m","i","n","g"," ","s","h","o","w">>, <<"B","a","c","k","g","r","o","u","n","d">>, <<"S","A","G"," ","/"," ","n","o","n","-","u","n","i","o","n">>, <<"T","B","D">>, <<"A","I"," ","h","e","i","s","t">>) >>

\* how many rows of each pool record a file has: Len(Pool) - p + 1 counts
\* that sum to at most budget
RECURSIVE CountVecs(_, _)
CountVecs(p, budget) ==
    IF p > Len(Pool) THEN {<<>>}
    ELSE UNION {{<<c>> \o v : v \in CountVecs(p + 1, budget - c)} : c \in 0..budget}

RECURSIVE Repeat(_, _)
Repeat(r, n) == IF n = 0 THEN <<>> ELSE <<r>> \o Repeat(r, n - 1)

RECURSIVE Layout(_, _)
Layout(cnt, p) ==
    IF p > Len(cnt) THEN <<>> ELSE Repeat(Pool[p], cnt[p]) \o Layout(cnt, p + 1)

\* files of up to MaxRows rows, the rows of one pool record together and the
\* records in pool order: rows of one key are apart, keys are out of order
PoolFiles == {Layout(cnt, 1) : cnt \in CountVecs(1, MaxRows)}

\* files of one row, its cells drawn independently
SingleRowFiles ==
    {<<Raw(d, l, p, rt, u, ra, de)>> :
        d  \in {<<"2","0","2","4","-","0","3","-","0","5">>, <<"2","0","2","4","-","0","2","-","3","0">>, NaN},
        l  \in {<<"M","e","x","i","c","o"," ","C","i","t","y">>, <<"S","y","d","n","e","y",","," ","A","u","s","t","r","a","l","i","a">>, NaN},
        p  \in {<<"B","r","o","a","d","w","a","y"," ","p","l","a","y">>, <<"T","V"," ","S","e","r","i","e","s">>},
        rt \in {<<"L","e","a","d">>, <<"R","o","b","o","t"," ","l","e","a","d"," ","r","o","l","e">>, <<"E","x","t","r","a">>, NaN},
        u  \in {<<"N","o","n","-","U","n","i","o","n">>, <<"E","q","u","i","t","y">>, NaN},
        ra \in {<<"$","1",",","2","0","0">>, <<"1","2",".">>, <<"U","n","k","n","o","w","n">>},
        de \in {<<"R","o","b","o","t"," ","l","e","a","d"," ","r","o","l","e">>, <<"G","r","i","m"," ","w","a","r"," ","e","p","i","c">>, NaN}}

InputFiles == PoolFiles \cup SingleRowFiles

\* the distinct cells of a column over all input files
Cells(col) == {Pool[i][col] : i \in 1..Len(Pool)} \cup {f[1][col] : f \in SingleRowFiles}

(***************************************************************************)
(* Record normaliser: Series.apply evaluates the classifier once per cell; *)
(* the tables below hold its value for every cell of the column.           *)
(***************************************************************************)
posted_date_col == [t \in Cells("posted_date") |-> to_datetime(t)]

region_code_col == [t \in Cells("work_location") |-> map_region(t)]

proj_type_code_col == [t \in Cells("project_type") |-> map_project_type(t)]

is_lead_col == [t \in Cells("role_type") |-> is_lead(t)]

is_union_col == [t \in Cells("union") |-> is_union(t)]

rate_val_col == [t \in Cells("rate") |-> extract_rate(t)]

sentiment_col == [t \in Cells("role_description") |-> calc_sentiment(t)]

has_ai_col == [t \in Cells("role_description") |-> has_ai_keywords(t)]

\* df['posted_date'] = pd.to_datetime(...); df['date_utc'] = df['posted_date'].dt.date
WithDates(r) ==
    LET ts == posted_date_col[r.posted_date]
    IN  [r EXCEPT !.posted_date = ts] @@ [date_utc |-> dt_date(ts)]

\* the seven derived columns of process
WithSignals(r) ==
    r @@ [region_code    |-> region_code_col[r.work_location],
          proj_type_code |-> proj_type_code_col[r.project_type],
          is_lead        |-> is_lead_col[r.role_type],
          is_union       |-> is_union_col[r.union],
          rate_val       |-> rate_val_col[r.rate],
          sentiment      |-> sentiment_col[r.role_description],
          has_ai         |-> has_ai_col[r.role_description]]

(***************************************************************************)
(* process                                                                 *)
(***************************************************************************)
Init ==
    /\ input \in InputFiles
    /\ pc = "read_csv"
    /\ df = <<>>
    /\ pulse = <<>>
    /\ output = <<>>
    /\ error = "none"
    /\ text = <<>>
    /\ parts = 0
    /\ res = <<>>

ReadCsv ==
    /\ pc = "read_csv"
    /\ df' = input
    /\ pc' = "to_datetime"
    /\ UNCHANGED <<input, pulse, output, error, text, parts, res>>

ParseDates ==
    /\ pc = "to_datetime"
    /\ df' = [i \in 1..Len(df) |-> WithDates(df[i])]
    /\ pc' = "apply"
    /\ UNCHANGED <<input, pulse, output, error, text, parts, res>>

Classify ==
    /\ pc = "apply"
    /\ df' = [i \in 1..Len(df) |-> WithSignals(df[i])]
    /\ pc' = "aggregate"
    /\ UNCHANGED <<input, pulse, output, error, text, parts, res>>

Aggregate ==
    /\ pc = "aggregate"
    /\ \E drift \in {-1, 0, 1} : pulse' = bucket_and_aggregate(df, drift)
    /\ pc' = "sort_values"
    /\ UNCHANGED <<input, df, output, error, text, parts, res>>

SortValues ==
    /\ pc = "sort_values"
    /\ IF HasKeyColumns(pulse)
       THEN /\ pulse' = sort_values(pulse)
            /\ pc' = "to_csv"
            /\ error' = error
       ELSE /\ pulse' = pulse
            /\ pc' = "failed"
            /\ error' = "KeyError"
    /\ UNCHANGED <<input, df, output, text, parts, res>>

\* to_csv, then the summary lines of the log
ToCsv ==
    /\ pc = "to_csv"
    /\ output' = pulse
    /\ pc' = "done"
    /\ UNCHANGED <<input, df, pulse, error, text, parts, res>>

Next == ReadCsv \/ ParseDates \/ Classify \/ Aggregate \/ SortValues \/ ToCsv

Spec == Init /\ [][Next]_vars

(***************************************************************************)
(* The classifiers on composed texts: a text is missing, or is built from  *)
(* up to MaxParts fragments, and one classifier is applied to it.          *)
(***************************************************************************)
MaxParts == 2

Fragments == {
    <<"L","o","s"," ","A","n","g","e","l","e","s">>, <<"M","e","x","i","c","o">>, <<" ","C","i","t","y">>, <<"m","e","x","i","c","o"," ","c","i","t","y">>, <<"C","a","n","a","d","a">>,
    <<"L","o","n","d","o","n">>, <<"U","K">>, <<"P","a","r","i","s">>, <<"J","a","p","a","n">>, <<"I","n","d","i","a">>, <<"S","y","d","n","e","y",","," ","A","u","s","t","r","a","l","i","a">>,
    <<"B","r","a","z","i","l">>, <<"P","e","r","u">>, <<"C","h","i","l","e">>, <<","," ">>, <<"R","e","m","o","t","e">>,
    <<"S","A","G">>, <<"-","A","F","T","R","A">>, <<"N","o","n","-">>, <<"U","n","i","o","n">>, <<"n","o","n","-","u","n","i","o","n">>, <<"E","q","u","i","t","y">> }

InitText ==
    /\ input = <<>>
    /\ pc = "text"
    /\ df = <<>>
    /\ pulse = <<>>
    /\ output = <<>>
    /\ error = "none"
    /\ text = <<>>
    /\ parts = 0
    /\ res = <<>>

AppendFragment ==
    /\ pc = "text"
    /\ ~isna(text)
    /\ parts < MaxParts
    /\ \E f \in Fragments : text' = text \o f
    /\ parts' = parts + 1
    /\ UNCHANGED <<input, pc, df, pulse, output, error, res>>

MissingText ==
    /\ pc = "text"
    /\ parts = 0
    /\ text' = NaN
    /\ UNCHANGED <<input, pc, df, pulse, output, error, parts, res>>

ApplyMapRegion ==
    /\ pc = "text"
    /\ res' = <<"map_region", map_region(text)>>
    /\ pc' = "classified"
    /\ UNCHANGED <<input, df, pulse, output, error, text, parts>>

ApplyIsUnion ==
    /\ pc = "text"
    /\ res' = <<"is_union", is_union(text)>>
    /\ pc' = "classified"
    /\ UNCHANGED <<input, df, pulse, output, error, text, parts>>

NextText == AppendFragment \/ MissingText \/ ApplyMapRegion \/ ApplyIsUnion

SpecText == InitText /\ [][NextText]_vars

(***************************************************************************)
(* Properties                                                              *)
(***************************************************************************)
\* k occurs in s, character by character
Occurs(k, s) ==
    \E i \in 1..Len(s) : \A j \in 1..Len(k) : i + j - 1 <= Len(s) /\ s[i + j - 1] = k[j]

\* df carries the derived columns
Classified == pc \in {"aggregate", "sort_values", "to_csv", "done", "failed"}

\* pulse holds the rows bucket_and_aggregate returned (sorted or not)
Aggregated == pc \in {"sort_values", "to_csv", "done", "failed"}

Rows == 1..Len(pulse)

\* the records of df that derive the key of row
Bucket(row) ==
    {j \in 1..Len(df) : /\ df[j].date_utc = row.date_utc
                        /\ df[j].region_code = row.region_code
                        /\ df[j].proj_type_code = row.proj_type_code}

\* C1: every returned row has role_count_day >= 5, and no row is returned
\* for a key that fewer than 5 records share.
C1_SuppressionFloor ==
    Aggregated =>
        \A i \in Rows : /\ pulse[i].role_count_day >= 5
                        /\ Cardinality(Bucket(pulse[i])) >= 5

\* a file where one bucket reaches the floor while another key, shared by 4
\* records with a parseable date, gets no row
C1_Witness ==
    /\ Aggregated
    /\ \E i \in Rows : pulse[i].role_count_day = 5
    /\ \E j \in 1..Len(df) :
          /\ df[j].date_utc # NaT
          /\ Cardinality(Bucket(df[j])) = 4
          /\ \A i \in Rows : j \notin Bucket(pulse[i])

\* C2: role_count_day is the number of records with a parseable date that
\* derive the row's key; a record with an unparseable date is counted in no
\* row, and a record with a parseable date in at most one row.
C2_RoleCountIsBucketSize ==
    Aggregated =>
        /\ \A i \in Rows :
              /\ pulse[i].date_utc # NaT
              /\ pulse[i].role_count_day =
                     Cardinality({j \in Bucket(pulse[i]) : df[j].date_utc # NaT})
        /\ \A j \in 1..Len(df) :
              /\ df[j].date_utc = NaT => \A i \in Rows : j \notin Bucket(pulse[i])
              /\ Cardinality({i \in Rows : j \in Bucket(pulse[i])}) <= 1

\* five or more records with an unparseable date beside a returned row
C2_Witness ==
    /\ Aggregated
    /\ pulse # <<>>
    /\ Cardinality({j \in 1..Len(df) : df[j].date_utc = NaT}) >= 5

\* the non-missing rates of a row's bucket, as a set of record indices
ValidRates(row) == {j \in Bucket(row) : df[j].rate_val # <<>>}

\* m, a fraction, is the median of the rates of the records J
IsMedian(m, J) ==
    LET n     == Cardinality(J)
        Lt(x) == Cardinality({j \in J : RatLess(df[j].rate_val, x)})
        Gt(x) == Cardinality({j \in J : RatLess(x, df[j].rate_val)})
    IN  IF n % 2 = 1
        THEN \E j \in J : /\ m = df[j].rate_val
                          /\ 2 * Lt(m) < n /\ 2 * Gt(m) < n
        ELSE \E a, b \in J :
                /\ m = <<df[a].rate_val[1] * df[b].rate_val[2] + df[b].rate_val[1] * df[a].rate_val[2],
                         2 * df[a].rate_val[2] * df[b].rate_val[2]>>
                /\ ~RatLess(df[b].rate_val, df[a].rate_val)
                /\ 2 * Lt(df[a].rate_val) < n /\ 2 * Gt(df[a].rate_val) <= n
                /\ 2 * Lt(df[b].rate_val) <= n /\ 2 * Gt(df[b].rate_val) < n

Abs(x) == IF x < 0 THEN -x ELSE x

\* v is the multiple of 250 nearest to the fraction m, the even multiple
\* when m lies half-way between two
NearestStep(v, m) ==
    /\ v % 250 = 0
    /\ 2 * Abs(m[1] - v * m[2]) <= 250 * m[2]
    /\ 2 * Abs(m[1] - v * m[2]) = 250 * m[2] => (v \div 250) % 2 = 0

MedianCandidates(J) ==
    {df[j].rate_val : j \in J} \cup
    {<<df[a].rate_val[1] * df[b].rate_val[2] + df[b].rate_val[1] * df[a].rate_val[2],
       2 * df[a].rate_val[2] * df[b].rate_val[2]>> : a, b \in J}

\* C3: median_rate_day_usd is absent exactly when the bucket has no
\* extractable rate; otherwise it is the multiple of 250 nearest to the
\* median of the bucket's rates, ties going to the even multiple.
C3_MedianRateRounded ==
    Aggregated =>
        \A i \in Rows :
            LET J == ValidRates(pulse[i])
                v == pulse[i].median_rate_day_usd
            IN  /\ v = <<>> <=> J = {}
                /\ J # {} => \E m \in MedianCandidates(J) :
                                 IsMedian(m, J) /\ NearestStep(v[1], m)

\* a bucket of 5 records whose only rates are 1200 and 1300 yields 1250
C3_Witness ==
    /\ Aggregated
    /\ \E i \in Rows :
          /\ pulse[i].role_count_day = 5
          /\ {df[j].rate_val : j \in ValidRates(pulse[i])} = {<<1200, 1>>, <<1300, 1>>}
          /\ Cardinality(ValidRates(pulse[i])) = 2
          /\ pulse[i].median_rate_day_usd = <<1250>>

\* alphabetical order of the codes, pair by pair
CodeBefore(a, b) ==
    <<a, b>> \in {<<"AP", "EU">>, <<"AP", "LA">>, <<"AP", "NA">>, <<"EU", "LA">>,
                  <<"EU", "NA">>, <<"LA", "NA">>,
                  <<"C", "F">>, <<"C", "T">>, <<"C", "V">>, <<"F", "T">>,
                  <<"F", "V">>, <<"T", "V">>}

DateBefore(a, b) ==
    \/ a[1] < b[1]
    \/ a[1] = b[1] /\ a[2] < b[2]
    \/ a[1] = b[1] /\ a[2] = b[2] /\ a[3] < b[3]

RowBefore(r, s) ==
    \/ DateBefore(r.date_utc, s.date_utc)
    \/ r.date_utc = s.date_utc /\ CodeBefore(r.region_code, s.region_code)
    \/ /\ r.date_utc = s.date_utc /\ r.region_code = s.region_code
       /\ CodeBefore(r.proj_type_code, s.proj_type_code)

\* C4: the rows process writes are strictly ascending by
\* (date_utc, region_code, proj_type_code), so no two share a key.
C4_OutputStrictlyAscending ==
    pc = "done" =>
        \A i, j \in 1..Len(output) : i < j => RowBefore(output[i], output[j])

\* an output of two rows
C4_Witness == pc = "done" /\ Len(output) >= 2

RobotLeadRole == <<"R","o","b","o","t"," ","l","e","a","d"," ","r","o","l","e">>

\* C5 as stated: a record whose role_description is "Robot lead role" gets
\* is_lead = true and has_ai = true, whatever its other fields are.
C5_RobotLeadRoleIsLeadAndAi ==
    Classified =>
        \A i \in 1..Len(df) :
            input[i].role_description = RobotLeadRole => df[i].is_lead /\ df[i].has_ai

\* C5 amended: such a record gets has_ai = true whatever its other fields
\* are, and its is_lead is decided by role_type alone: true exactly when
\* role_type is present and contains lead, principal, main or starring.
C5_RobotLeadRoleIsAi ==
    Classified =>
        \A i \in 1..Len(df) :
            input[i].role_description = RobotLeadRole =>
                /\ df[i].has_ai
                /\ df[i].is_lead <=>
                       /\ input[i].role_type # NaN
                       /\ \E k \in {<<"l","e","a","d">>, <<"p","r","i","n","c","i","p","a","l">>, <<"m","a","i","n">>, <<"s","t","a","r","r","i","n","g">>} :
                              Occurs(k, lower(input[i].role_type))

\* a "Robot lead role" description on a record whose role_type names no lead
C5_Witness ==
    /\ Classified
    /\ \E i \in 1..Len(df) :
          /\ input[i].role_description = RobotLeadRole
          /\ input[i].role_type = <<"E","x","t","r","a">>
          /\ df[i].has_ai /\ ~df[i].is_lead

\* C6: process completes without failure for every input that has the
\* required columns, also when no bucket reaches 5 records.
C6_ProcessNeverFails == pc # "failed"

\* the true flags of a row's bucket
Flagged(row, col) == Cardinality({j \in Bucket(row) : df[j][col]})

\* tenths t is count / total rounded to one decimal, within [0.0, 1.0]
IsShare(t, cnt, total) ==
    /\ 0 <= t /\ t <= 10
    /\ 2 * Abs(10 * cnt - t * total) <= total

\* C7: each share of a row is (records of the bucket with the flag) /
\* role_count_day rounded to 1 decimal, and lies in [0.0, 1.0].
C7_SharesRounded ==
    Aggregated =>
        \A i \in Rows :
            LET row == pulse[i]
            IN  /\ IsShare(row.lead_share_pct_day, Flagged(row, "is_lead"), row.role_count_day)
                /\ IsShare(row.union_share_pct_day, Flagged(row, "is_union"), row.role_count_day)
                /\ IsShare(row.theme_ai_share_pct_day, Flagged(row, "has_ai"), row.role_count_day)

\* a share that rounding changes: 5 leads of 6 records, 0.8333 -> 0.8
C7_Witness ==
    /\ Aggregated
    /\ \E i \in Rows :
          /\ pulse[i].role_count_day = 6
          /\ Flagged(pulse[i], "is_lead") = 5
          /\ pulse[i].lead_share_pct_day = 8

RegionOrder == <<"NA", "EU", "AP", "LA">>

KeywordsOf(c) ==
    LET e == CHOOSE i \in 1..Len(REGION_MAPPING) : REGION_MAPPING[i].code = c
    IN  {REGION_MAPPING[e].keywords[j] : j \in 1..Len(REGION_MAPPING[e].keywords)}

\* category c has a keyword in the lower-cased text
Matches(c, t) == \E k \in KeywordsOf(c) : Occurs(k, lower(t))

\* C8: map_region returns the first category in the order NA, EU, AP, LA
\* with a keyword occurring in the lower-cased text, and NA when no keyword
\* occurs or the location is missing.
C8_MapRegionFirstMatch ==
    (pc = "classified" /\ res[1] = "map_region") =>
        IF text = NaN THEN res[2] = "NA"
        ELSE LET hits == {i \in 1..4 : Matches(RegionOrder[i], text)}
             IN  IF hits = {} THEN res[2] = "NA"
                 ELSE \E i \in hits : /\ \A h \in hits : i <= h
                                      /\ res[2] = RegionOrder[i]

\* a text with keywords of two categories, classified by the earlier one
C8_Witness ==
    /\ pc = "classified" /\ res[1] = "map_region"
    /\ text # NaN
    /\ Matches("EU", text) /\ Matches("LA", text) /\ ~Matches("NA", text)
    /\ res[2] = "EU"

\* C9: is_union is true exactly when the lower-cased text contains sag,
\* aftra, equity or union and does not contain "non-union"; false for a
\* missing text.
C9_IsUnion ==
    (pc = "classified" /\ res[1] = "is_union") =>
        (res[2] <=> /\ text # NaN
                    /\ \E k \in {<<"s","a","g">>, <<"a","f","t","r","a">>, <<"e","q","u","i","t","y">>, <<"u","n","i","o","n">>} : Occurs(k, lower(text))
                    /\ ~Occurs(<<"n","o","n","-","u","n","i","o","n">>, lower(text)))

\* a text that names a union and also contains "non-union"
C9_Witness ==
    /\ pc = "classified" /\ res[1] = "is_union"
    /\ text # NaN
    /\ Occurs(<<"s","a","g">>, lower(text)) /\ Occurs(<<"n","o","n","-","u","n","i","o","n">>, lower(text))
    /\ res[2] = FALSE

\* C10: a text containing "mexico city" contains the NA keyword "mexico"
\* and is classified NA; LA is returned only for a text with another LA
\* keyword and no NA, EU or AP keyword.
C10_MexicoCityNeverDecides ==
    (pc = "classified" /\ res[1] = "map_region" /\ text # NaN) =>
        /\ Occurs(<<"m","e","x","i","c","o"," ","c","i","t","y">>, lower(text)) =>
               Occurs(<<"m","e","x","i","c","o">>, lower(text)) /\ res[2] = "NA"
        /\ res[2] = "LA" =>
               /\ \E k \in KeywordsOf("LA") \ {<<"m","e","x","i","c","o"," ","c","i","t","y">>} : Occurs(k, lower(text))
               /\ ~Matches("NA", text) /\ ~Matches("EU", text) /\ ~Matches("AP", text)

\* "Mexico City" is classified NA
C10_Witness ==
    /\ pc = "classified" /\ res[1] = "map_region"
    /\ text # NaN
    /\ Occurs(<<"m","e","x","i","c","o"," ","c","i","t","y">>, lower(text))
    /\ res[2] = "NA"
====
